---- MODULE Spec2Model ----
(***************************************************************************)
(* Outlet das Cores MCP server: seven CRM tools over a Supabase backend,   *)
(* in three transport variants (stdio: src/src/index.ts, HTTP:             *)
(* src/src/server.ts, SSE: src/unnamed/part_000).                          *)
(*                                                                         *)
(* A tool call is a sequence of awaited backend calls.  Each backend call  *)
(* is one atomic step of the model; the synchronous code between two       *)
(* awaits belongs to the step before it.  Every backend call may report an *)
(* error ({data: null, error, count: null}), as supabase-js returns it.    *)
(***************************************************************************)
EXTENDS Integers, Sequences, FiniteSets, TLC

VARIABLES leads, calls, transport, sessions, posted

vars == <<leads, calls, transport, sessions, posted>>

\* the state of the SSE endpoints of part_000: `transport` is the session the
\* module variable `transport` holds (0 for undefined), `sessions` the
\* sessions opened by GET /sse, `posted` the last POST /messages
sseVars == <<transport, sessions, posted>>

NoPost == [n |-> 0, from |-> 0, status |-> 0, to |-> 0]

\* let transport: SSEServerTransport;  no request yet
SseIdle ==
    /\ transport = 0
    /\ sessions = <<>>
    /\ posted = NoPost

----------------------------------------------------------------------------
(* Bounds of the model *)

\* the leads table never grows beyond this many rows
MaxLeads == 3

\* no more GET /sse and no more POST /messages than these
MaxSessions == 3
MaxPosts == 3

----------------------------------------------------------------------------
(* JavaScript values *)

Undef   == [t |-> "undef", n |-> 0, s |-> ""]
Null    == [t |-> "null",  n |-> 0, s |-> ""]
NaN     == [t |-> "nan",   n |-> 0, s |-> ""]
Num(k)  == [t |-> "num",   n |-> k, s |-> ""]
Str(x)  == [t |-> "str",   n |-> 0, s |-> x]
Bool(b) == [t |-> "bool",  n |-> IF b THEN 1 ELSE 0, s |-> ""]
\* a string in UUID format; k names the row it is the id of
Uuid(k) == [t |-> "uuid",  n |-> k, s |-> ""]

IsString(v) == v.t \in {"str", "uuid"}

\* JavaScript truthiness, as used by `x || d` and `if (x)`
Truthy(v) ==
    CASE v.t \in {"undef", "null", "nan"} -> FALSE
      [] v.t = "num"  -> v.n # 0
      [] v.t = "bool" -> v.n = 1
      [] v.t = "str"  -> v.s # ""
      [] OTHER        -> TRUE

\* x || d
OrElse(x, d) == IF Truthy(x) THEN x ELSE d

\* TLC strings are atomic: the characters of the string literals in use
CharsOf(s) ==
    CASE s = ""    -> <<>>
      [] s = "200" -> <<"2", "0", "0">>
      [] s = "50"  -> <<"5", "0">>
      [] s = "abc" -> <<"a", "b", "c">>
      [] s = " 7 " -> <<" ", "7", " ">>
      [] s = "a@b"    -> <<"a", "@", "b">>
      [] s = "Tinta"  -> <<"T", "i", "n", "t", "a">>
      [] s = "tinta"  -> <<"t", "i", "n", "t", "a">>
      [] s = "fosca"  -> <<"f", "o", "s", "c", "a">>
      [] s = "velha"  -> <<"v", "e", "l", "h", "a">>
      [] s = "Verniz" -> <<"V", "e", "r", "n", "i", "z">>
      [] s = "brilho" -> <<"b", "r", "i", "l", "h", "o">>
      [] s = "acab"   -> <<"a", "c", "a", "b">>
      [] s = "tin"    -> <<"t", "i", "n">>
      [] s = "FOS"    -> <<"F", "O", "S">>
      [] s = "zzz"    -> <<"z", "z", "z">>
      [] OTHER     -> <<"?">>

DigitValue(c) ==
    CASE c = "0" -> 0 [] c = "1" -> 1 [] c = "2" -> 2 [] c = "3" -> 3
      [] c = "4" -> 4 [] c = "5" -> 5 [] c = "6" -> 6 [] c = "7" -> 7
      [] c = "8" -> 8 [] c = "9" -> 9 [] OTHER -> -1

RECURSIVE TrimLeft(_)
TrimLeft(cs) ==
    IF cs # <<>> /\ Head(cs) = " " THEN TrimLeft(Tail(cs)) ELSE cs

RECURSIVE TrimRight(_)
TrimRight(cs) ==
    IF cs # <<>> /\ cs[Len(cs)] = " "
    THEN TrimRight(SubSeq(cs, 1, Len(cs) - 1))
    ELSE cs

RECURSIVE DigitsValue(_, _)
\* the decimal value of a digit string, -1 when a character is no digit
DigitsValue(cs, acc) ==
    IF cs = <<>> THEN acc
    ELSE IF DigitValue(Head(cs)) < 0 THEN -1
    ELSE DigitsValue(Tail(cs), 10 * acc + DigitValue(Head(cs)))

\* Number(v) of ECMAScript, on the values of the model
ToNumber(v) ==
    CASE v.t = "num"   -> v
      [] v.t = "nan"   -> NaN
      [] v.t = "undef" -> NaN
      [] v.t = "null"  -> Num(0)
      [] v.t = "bool"  -> Num(v.n)
      [] v.t = "uuid"  -> NaN
      [] v.t = "str"   ->
            LET cs == TrimRight(TrimLeft(CharsOf(v.s)))
            IN  IF cs = <<>> THEN Num(0)
                ELSE IF DigitsValue(cs, 0) < 0 THEN NaN
                ELSE Num(DigitsValue(cs, 0))

\* a + b on numbers
NumAdd(a, b) == IF a.t = "nan" \/ b.t = "nan" THEN NaN ELSE Num(a.n + b.n)

----------------------------------------------------------------------------
(* Objects: custom_fields *)

EmptyMap == [k \in {} |-> Undef]

Obj(m)   == [t |-> "obj",   m |-> m]
NullObj  == [t |-> "null",  m |-> EmptyMap]
UndefObj == [t |-> "undef", m |-> EmptyMap]

\* { ...a, ...b } on two key -> value maps
Spread(a, b) ==
    [k \in DOMAIN a \cup DOMAIN b |-> IF k \in DOMAIN b THEN b[k] ELSE a[k]]

\* the own properties that `...x` copies: none for null and undefined
OwnProps(o) == IF o.t = "obj" THEN o.m ELSE EmptyMap

\* o?.key
Prop(o, key) ==
    IF o.t = "obj" /\ key \in DOMAIN o.m THEN o.m[key] ELSE Undef

----------------------------------------------------------------------------
(* The backend tables *)

\* pipeline_stages: id, slug, name.  Stage ids start at 1; 0 is SQL NULL.
PipelineStages ==
    << [id |-> 1, slug |-> "lead",    name |-> "Lead"],
       [id |-> 2, slug |-> "fechado", name |-> "Fechado"] >>

StageIds == 1..Len(PipelineStages)

\* a row of leads; its id is its index in the table, which is also the order
\* of created_at
LeadRow(stage, vendedor, cf, pos, name) ==
    [stage_id |-> stage, vendedor_id |-> vendedor, custom_fields |-> cf,
     position |-> pos, name |-> name]

\* what a backend call returns: {data, error, count}
BackendFailure == "backend failure"
NoRows == "JSON object requested, multiple (or no) rows returned"

\* .eq("slug", v) on pipeline_stages: the ids of the matching rows
StagesBySlug(v) ==
    {i \in StageIds : v.t = "str" /\ PipelineStages[i].slug = v.s}

\* .eq("id", v) on a leads table: the ids of the matching rows
LeadsById(table, v) ==
    {i \in 1..Len(table) : v.t = "uuid" /\ v.n = i}

\* .eq("stage_id", id) on a leads table
LeadsByStage(table, id) ==
    {i \in 1..Len(table) : table[i].stage_id = id}

\* .single(): the one row of `ids`, or the error of zero or several rows
SingleError(ids, fail) ==
    IF fail THEN BackendFailure
    ELSE IF Cardinality(ids) # 1 THEN NoRows
    ELSE ""

\* .eq(<uuid column>, v): the backend rejects a value that is no UUID
InvalidUuid == "invalid input syntax for type uuid"

UuidFilterError(v, fail) ==
    IF fail THEN BackendFailure
    ELSE IF v.t # "uuid" THEN InvalidUuid
    ELSE ""

\* .eq("id", v).single() on leads
LeadSingleError(ids, v, fail) ==
    IF UuidFilterError(v, fail) # "" THEN UuidFilterError(v, fail)
    ELSE SingleError(ids, fail)

SingleData(ids, fail) ==
    IF SingleError(ids, fail) = "" THEN CHOOSE i \in ids : TRUE ELSE 0

----------------------------------------------------------------------------
(* Tool arguments and their schemas *)

ToolNames ==
    {"get_leads", "update_lead_stage", "update_lead_custom_fields",
     "create_lead", "search_price_catalog", "get_lead_history",
     "get_pipeline_stats"}

\* an arguments object with no key
NoArgs ==
    [lead_id |-> Undef, new_stage_slug |-> Undef, stage_slug |-> Undef,
     vendedor_id |-> Undef, limit |-> Undef, custom_fields |-> UndefObj,
     name |-> Undef, email |-> Undef, query |-> Undef, category |-> Undef,
     position |-> Undef]

DefaultLeadsLimit == 50
DefaultCatalogLimit == 10
DefaultStageSlug == "lead"

\* zod checks
ZString(v) == IsString(v)
ZUuid(v)   == v.t = "uuid"
ZNumber(v) == v.t = "num"
ZEmail(v)  == v.t = "str" /\ \E i \in 1..Len(CharsOf(v.s)) : CharsOf(v.s)[i] = "@"
ZRecord(o) == o.t = "obj"
ZOptional(ok, v) == v.t = "undef" \/ ok
ZDefault(v, d) == IF v.t = "undef" THEN d ELSE v

\* Schema.parse(args): ok, and the parsed object (unknown keys stripped,
\* defaults filled in)
GetLeadsSchema(a) ==
    [ok |-> /\ ZOptional(ZString(a.stage_slug), a.stage_slug)
            /\ ZOptional(ZUuid(a.vendedor_id), a.vendedor_id)
            /\ ZOptional(ZNumber(a.limit), a.limit),
     params |-> [NoArgs EXCEPT !.stage_slug = a.stage_slug,
                               !.vendedor_id = a.vendedor_id,
                               !.limit = ZDefault(a.limit, Num(DefaultLeadsLimit))]]

UpdateLeadStageSchema(a) ==
    [ok |-> ZUuid(a.lead_id) /\ ZString(a.new_stage_slug),
     params |-> [NoArgs EXCEPT !.lead_id = a.lead_id,
                               !.new_stage_slug = a.new_stage_slug]]

UpdateLeadCustomFieldsSchema(a) ==
    [ok |-> ZUuid(a.lead_id) /\ ZRecord(a.custom_fields),
     params |-> [NoArgs EXCEPT !.lead_id = a.lead_id,
                               !.custom_fields = a.custom_fields]]

CreateLeadSchema(a) ==
    [ok |-> /\ ZString(a.name)
            /\ ZOptional(ZEmail(a.email), a.email)
            /\ ZOptional(ZString(a.stage_slug), a.stage_slug)
            /\ ZUuid(a.vendedor_id)
            /\ ZOptional(ZRecord(a.custom_fields), a.custom_fields),
     params |-> [NoArgs EXCEPT !.name = a.name,
                               !.email = a.email,
                               !.stage_slug = ZDefault(a.stage_slug, Str(DefaultStageSlug)),
                               !.vendedor_id = a.vendedor_id,
                               !.custom_fields = a.custom_fields]]

SearchPriceCatalogSchema(a) ==
    [ok |-> /\ ZString(a.query)
            /\ ZOptional(ZString(a.category), a.category)
            /\ ZOptional(ZNumber(a.limit), a.limit),
     params |-> [NoArgs EXCEPT !.query = a.query,
                               !.category = a.category,
                               !.limit = ZDefault(a.limit, Num(DefaultCatalogLimit))]]

GetLeadHistorySchema(a) ==
    [ok |-> ZUuid(a.lead_id),
     params |-> [NoArgs EXCEPT !.lead_id = a.lead_id]]

----------------------------------------------------------------------------
(* Results, outcomes and the response envelopes *)

EmptyStats == [k \in {} |-> [count |-> 0, total_value |-> Num(0), stage_name |-> Undef]]

\* what a handler returns: rows (ids), a stats object, or a lead (its id)
NoResult       == [rows |-> <<>>, stats |-> EmptyStats, lead |-> 0]
RowsResult(r)  == [rows |-> r,    stats |-> EmptyStats, lead |-> 0]
StatsResult(st) == [rows |-> <<>>, stats |-> st,        lead |-> 0]
LeadResult(i)  == [rows |-> <<>>, stats |-> EmptyStats, lead |-> i]

Return(result) == [thrown |-> FALSE, msg |-> "", result |-> result]
Throw(msg)     == [thrown |-> TRUE,  msg |-> msg, result |-> NoResult]

NoResponse ==
    [status |-> 0, isError |-> FALSE, unhandled |-> FALSE, msg |-> "",
     text |-> "", result |-> NoResult]

\* the handler of index.ts without its catch: a thrown error leaves the call
\* with no response
StdioEnvelopeWithoutCatch(o) ==
    [status |-> 0, isError |-> FALSE, unhandled |-> o.thrown, msg |-> o.msg,
     text |-> IF o.thrown THEN "" ELSE o.msg, result |-> o.result]

\* index.ts: try { ... return {content} } catch { return {content, isError: true} }
StdioEnvelope(o) ==
    [status |-> 0, isError |-> o.thrown, unhandled |-> FALSE, msg |-> o.msg,
     text |-> o.msg, result |-> o.result]

\* part_000: the same, with text: String(error)
SseEnvelope(o) ==
    [status |-> 0, isError |-> o.thrown, unhandled |-> FALSE, msg |-> o.msg,
     text |-> IF o.thrown THEN "Error: " \o o.msg ELSE "", result |-> o.result]

\* server.ts: res.json(...) or, in the catch, res.status(500).json({error})
HttpEnvelope(o) ==
    [status |-> IF o.thrown THEN 500 ELSE 200, isError |-> FALSE,
     unhandled |-> FALSE, msg |-> o.msg, text |-> o.msg, result |-> o.result]

\* server.ts: if (!tool) return res.status(400).json({error: `Tool not found`})
HttpToolNotFound ==
    [status |-> 400, isError |-> FALSE, unhandled |-> FALSE,
     msg |-> "Tool not found", text |-> "Tool not found", result |-> NoResult]

Envelope(v, o) ==
    CASE v = "stdio" -> StdioEnvelope(o)
      [] v = "sse"   -> SseEnvelope(o)
      [] v = "http"  -> HttpEnvelope(o)

\* the message a handler throws for a backend error: index.ts prefixes it
ErrorMessage(v, prefix, m) == IF v = "stdio" THEN prefix \o m ELSE m

----------------------------------------------------------------------------
(* Calls *)

Variants == {"stdio", "http", "sse"}

NoPrev == [name |-> "", ok |-> FALSE, lead |-> 0, fields |-> EmptyMap]

IdleCall ==
    [pc |-> "idle", variant |-> "", name |-> "", args |-> NoArgs,
     params |-> NoArgs, stage |-> 0, count |-> Null, merged |-> EmptyMap,
     ops |-> <<>>, errs |-> {}, thrown |-> FALSE, pre |-> <<>>,
     prev |-> NoPrev, resp |-> NoResponse]

\* a backend call `op` has been answered, with error `err` ("" for none)
Issue(call, op, err) ==
    [call EXCEPT !.ops = Append(@, op),
                 !.errs = IF err # "" THEN @ \cup {op} ELSE @]

\* the handler returns or throws, and the transport answers
Finish(call, o) ==
    [call EXCEPT !.pc = "done", !.thrown = o.thrown,
                 !.resp = Envelope(call.variant, o)]

Failed(resp) == resp.isError \/ resp.status >= 400
Succeeded(resp) == ~Failed(resp) /\ ~resp.unhandled

\* the first await of each handler
FirstStep(name, params) ==
    CASE name = "get_leads" ->
            IF Truthy(params.stage_slug) THEN "getLeads_stage" ELSE "getLeads_query"
      [] name = "update_lead_stage"         -> "updateLeadStage_stage"
      [] name = "update_lead_custom_fields" -> "updateLeadCustomFields_fetch"
      [] name = "create_lead"               -> "createLead_stage"
      [] name = "search_price_catalog"      -> "searchPriceCatalog_query"
      [] name = "get_lead_history"          -> "getLeadHistory_query"
      [] name = "get_pipeline_stats"        -> "getPipelineStats_query"

\* Schema.parse(args) of the switch in index.ts and part_000
Parse(name, args) ==
    CASE name = "get_leads"                 -> GetLeadsSchema(args)
      [] name = "update_lead_stage"         -> UpdateLeadStageSchema(args)
      [] name = "update_lead_custom_fields" -> UpdateLeadCustomFieldsSchema(args)
      [] name = "create_lead"               -> CreateLeadSchema(args)
      [] name = "search_price_catalog"      -> SearchPriceCatalogSchema(args)
      [] name = "get_lead_history"          -> GetLeadHistorySchema(args)
      [] name = "get_pipeline_stats"        -> [ok |-> TRUE, params |-> NoArgs]

\* what the call that is replaced leaves for the next one to remember: the
\* update of custom fields that has just succeeded
Remember(old) ==
    IF /\ old.pc = "done"
       /\ old.name = "update_lead_custom_fields"
       /\ Succeeded(old.resp)
    THEN [name |-> old.name, ok |-> Succeeded(old.resp),
          lead |-> IF old.params.lead_id.t = "uuid" THEN old.params.lead_id.n ELSE 0,
          fields |-> OwnProps(old.params.custom_fields)]
    ELSE NoPrev

\* TOOLS is a plain object: TOOLS[name] also finds what it inherits
ObjectPrototypeKeys == {"toString"}

\* CallToolRequestSchema handler of index.ts and part_000: the switch on the
\* name, Schema.parse(args), and the start of the handler
McpDispatch(call, name, args) ==
    IF name \notin ToolNames
    THEN Finish(call, Throw("Unknown tool"))
    ELSE IF ~Parse(name, args).ok
    THEN Finish(call, Throw("ZodError"))
    ELSE [call EXCEPT !.params = Parse(name, args).params,
                      !.pc = FirstStep(name, Parse(name, args).params)]

\* app.post("/mcp") of server.ts: TOOLS[name], then tool.handler(args || {})
HttpDispatch(call, name, args) ==
    IF name \in ObjectPrototypeKeys
    THEN Finish(call, Throw("tool.handler is not a function"))
    ELSE IF name \notin ToolNames
    THEN [call EXCEPT !.pc = "done", !.resp = HttpToolNotFound]
    ELSE [call EXCEPT !.params = args, !.pc = FirstStep(name, args)]

Dispatch(call, name, args) ==
    IF call.variant = "http"
    THEN HttpDispatch(call, name, args)
    ELSE McpDispatch(call, name, args)

\* a client sends tools/call over transport v; `before` is what the model
\* keeps of the call it replaces
Invoke(c, v, name, args, before) ==
    /\ UNCHANGED sseVars
    /\ calls[c].pc \in {"idle", "done"}
    /\ calls' = [calls EXCEPT ![c] =
            Dispatch([IdleCall EXCEPT !.variant = v, !.name = name,
                                      !.args = args, !.pre = leads,
                                      !.prev = before],
                     name, args)]
    /\ UNCHANGED leads

----------------------------------------------------------------------------
(* update_lead_custom_fields *)

\* the update written as it came, the current fields dropped
MergeFieldsReplacing(current, update) == OwnProps(update)

\* { ...(current.custom_fields || {}), ...params.custom_fields }
MergeFields(current, update) ==
    Spread(OwnProps(current), OwnProps(update))

\* index.ts: if (fetchError) throw new Error(`Lead not found`)
StdioFetchCurrent(call, ids, err) ==
    IF err # ""
    THEN Finish(call, Throw("Lead not found"))
    ELSE [call EXCEPT !.pc = "updateLeadCustomFields_update",
              !.merged = MergeFields(leads[SingleData(ids, FALSE)].custom_fields,
                                     call.params.custom_fields)]

\* server.ts, part_000: the error of the fetch is not read; current?.custom_fields
LooseFetchCurrent(call, ids, err) ==
    [call EXCEPT !.pc = "updateLeadCustomFields_update",
         !.merged = MergeFields(IF err # "" THEN UndefObj
                                ELSE leads[SingleData(ids, FALSE)].custom_fields,
                                call.params.custom_fields)]

FetchCurrent(call, ids, err) ==
    IF call.variant = "stdio"
    THEN StdioFetchCurrent(call, ids, err)
    ELSE LooseFetchCurrent(call, ids, err)

\* await supabase.from("leads").select("custom_fields").eq("id", lead_id).single()
UpdateLeadCustomFieldsFetch(c) ==
    /\ UNCHANGED sseVars
    /\ calls[c].pc = "updateLeadCustomFields_fetch"
    /\ \E fail \in BOOLEAN :
        LET ids == LeadsById(leads, calls[c].params.lead_id)
            err == LeadSingleError(ids, calls[c].params.lead_id, fail)
        IN  calls' = [calls EXCEPT ![c] =
                FetchCurrent(Issue(calls[c], "select_lead", err), ids, err)]
    /\ UNCHANGED leads

\* an update that is stored while the call is answered as a failure
UpdateLeadCustomFieldsUpdateUnreported(c) ==
    /\ UNCHANGED sseVars
    /\ calls[c].pc = "updateLeadCustomFields_update"
    /\ LeadsById(leads, calls[c].params.lead_id) # {}
    /\ leads' = [leads EXCEPT ![calls[c].params.lead_id.n].custom_fields =
                                  Obj(calls[c].merged)]
    /\ calls' = [calls EXCEPT ![c] =
            Finish(Issue(calls[c], "update_lead", BackendFailure),
                   Throw(BackendFailure))]

\* await supabase.from("leads").update({custom_fields: merged}).eq("id", lead_id)
\*       .select().single()
UpdateLeadCustomFieldsUpdate(c) ==
    /\ UNCHANGED sseVars
    /\ calls[c].pc = "updateLeadCustomFields_update"
    /\ \E fail \in BOOLEAN :
        LET ids == LeadsById(leads, calls[c].params.lead_id)
            err == LeadSingleError(ids, calls[c].params.lead_id, fail)
            id  == SingleData(ids, fail)
            call == Issue(calls[c], "update_lead", err)
        IN  IF err # ""
            THEN /\ calls' = [calls EXCEPT ![c] = Finish(call,
                        Throw(ErrorMessage(call.variant,
                                  "Failed to update custom fields: ", err)))]
                 /\ UNCHANGED leads
            ELSE /\ leads' = [leads EXCEPT ![id].custom_fields = Obj(call.merged)]
                 /\ calls' = [calls EXCEPT ![c] = Finish(call, Return(LeadResult(id)))]

----------------------------------------------------------------------------
(* update_lead_stage *)

\* a lookup that takes the first stage, whatever the slug
UpdateLeadStageLookupFirstStage(c) ==
    /\ UNCHANGED sseVars
    /\ calls[c].pc = "updateLeadStage_stage"
    /\ calls' = [calls EXCEPT ![c] =
            [Issue(calls[c], "select_stage", "") EXCEPT
                 !.stage = 1, !.pc = "updateLeadStage_update"]]
    /\ UNCHANGED leads

\* await supabase.from("pipeline_stages").select("id, name").eq("slug", slug).single()
\* if (stageError || !stage) throw new Error(`Stage not found`)
UpdateLeadStageLookup(c) ==
    /\ UNCHANGED sseVars
    /\ calls[c].pc = "updateLeadStage_stage"
    /\ \E fail \in BOOLEAN :
        LET ids == StagesBySlug(calls[c].params.new_stage_slug)
            err == SingleError(ids, fail)
            call == Issue(calls[c], "select_stage", err)
        IN  calls' = [calls EXCEPT ![c] =
                IF SingleData(ids, fail) = 0
                THEN Finish(call, Throw("Stage not found"))
                ELSE [call EXCEPT !.stage = SingleData(ids, fail),
                                  !.pc = "updateLeadStage_update"]]
    /\ UNCHANGED leads

\* an update of the stage that also writes the move into lead_history
UpdateLeadStageUpdateWithHistory(c) ==
    /\ UNCHANGED sseVars
    /\ calls[c].pc = "updateLeadStage_update"
    /\ LET ids == LeadsById(leads, calls[c].params.lead_id)
           err == LeadSingleError(ids, calls[c].params.lead_id, FALSE)
           call == Issue(Issue(calls[c], "update_lead", err), "insert_history", err)
       IN  IF err # ""
           THEN /\ calls' = [calls EXCEPT ![c] = Finish(call, Throw(err))]
                /\ UNCHANGED leads
           ELSE /\ leads' = [leads EXCEPT ![SingleData(ids, FALSE)].stage_id = call.stage]
                /\ calls' = [calls EXCEPT ![c] =
                       Finish(call, Return(LeadResult(SingleData(ids, FALSE))))]

\* await supabase.from("leads").update({stage_id: stage.id}).eq("id", lead_id)
\*       .select().single()
UpdateLeadStageUpdate(c) ==
    /\ UNCHANGED sseVars
    /\ calls[c].pc = "updateLeadStage_update"
    /\ \E fail \in BOOLEAN :
        LET ids == LeadsById(leads, calls[c].params.lead_id)
            err == LeadSingleError(ids, calls[c].params.lead_id, fail)
            id  == SingleData(ids, fail)
            call == Issue(calls[c], "update_lead", err)
        IN  IF err # ""
            THEN /\ calls' = [calls EXCEPT ![c] = Finish(call,
                        Throw(ErrorMessage(call.variant, "Failed to update lead: ", err)))]
                 /\ UNCHANGED leads
            ELSE /\ leads' = [leads EXCEPT ![id].stage_id = call.stage]
                 /\ calls' = [calls EXCEPT ![c] = Finish(call, Return(LeadResult(id)))]

----------------------------------------------------------------------------
(* create_lead *)

\* null for undefined: JSON.stringify drops the key and the column is NULL
Column(v) == IF v.t = "undef" THEN Null ELSE v

\* the position taken one past the count
PositionAfterCount(count) == IF Truthy(count) THEN count.n + 1 ELSE 0

\* position: count || 0
PositionOf(count) == IF Truthy(count) THEN count.n ELSE 0

\* the row that createLead inserts
NewLead(call) ==
    LeadRow(call.stage,
            Column(call.params.vendedor_id),
            IF call.params.custom_fields.t = "obj"
            THEN call.params.custom_fields ELSE Obj(EmptyMap),
            PositionOf(call.count),
            Column(call.params.name))

\* await supabase.from("pipeline_stages").select("id")
\*       .eq("slug", params.stage_slug || "lead").single()
\* if (!stage) throw new Error(`Stage not found`)
CreateLeadStageLookup(c) ==
    /\ UNCHANGED sseVars
    /\ calls[c].pc = "createLead_stage"
    /\ \E fail \in BOOLEAN :
        LET ids == StagesBySlug(OrElse(calls[c].params.stage_slug,
                                       Str(DefaultStageSlug)))
            err == SingleError(ids, fail)
            call == Issue(calls[c], "select_stage", err)
        IN  calls' = [calls EXCEPT ![c] =
                IF SingleData(ids, fail) = 0
                THEN Finish(call, Throw("Stage not found"))
                ELSE [call EXCEPT !.stage = SingleData(ids, fail),
                                  !.pc = "createLead_count"]]
    /\ UNCHANGED leads

\* const { count } = await supabase.from("leads")
\*       .select("*", {count: "exact", head: true}).eq("stage_id", stage.id)
CreateLeadCount(c) ==
    /\ UNCHANGED sseVars
    /\ calls[c].pc = "createLead_count"
    /\ \E fail \in BOOLEAN :
        LET n == Cardinality(LeadsByStage(leads, calls[c].stage))
            call == Issue(calls[c], "count_leads",
                          IF fail THEN BackendFailure ELSE "")
        IN  calls' = [calls EXCEPT ![c] =
                [call EXCEPT !.count = IF fail THEN Null ELSE Num(n),
                             !.pc = "createLead_insert"]]
    /\ UNCHANGED leads

\* an insert whose row is stored while the call is answered as a failure
CreateLeadInsertUnreported(c) ==
    /\ UNCHANGED sseVars
    /\ calls[c].pc = "createLead_insert"
    /\ Len(leads) < MaxLeads
    /\ leads' = Append(leads, NewLead(calls[c]))
    /\ calls' = [calls EXCEPT ![c] =
            Finish(Issue(calls[c], "insert_lead", BackendFailure),
                   Throw(BackendFailure))]

\* await supabase.from("leads").insert({...}).select().single()
\* The backend refuses the insert once the table holds MaxLeads rows.
CreateLeadInsert(c) ==
    /\ UNCHANGED sseVars
    /\ calls[c].pc = "createLead_insert"
    /\ \E fail \in BOOLEAN :
        LET refused == fail \/ Len(leads) >= MaxLeads
            call == Issue(calls[c], "insert_lead",
                          IF refused THEN BackendFailure ELSE "")
        IN  IF refused
            THEN /\ calls' = [calls EXCEPT ![c] = Finish(call,
                        Throw(ErrorMessage(call.variant, "Failed to create lead: ",
                                           BackendFailure)))]
                 /\ UNCHANGED leads
            ELSE /\ leads' = Append(leads, NewLead(call))
                 /\ calls' = [calls EXCEPT ![c] =
                        Finish(call, Return(LeadResult(Len(leads) + 1)))]

----------------------------------------------------------------------------
(* get_leads *)

RECURSIVE Descending(_)
\* the ids of a set, greatest (newest created_at) first
Descending(ids) ==
    IF ids = {} THEN <<>>
    ELSE LET top == CHOOSE i \in ids : \A j \in ids : j <= i
         IN  <<top>> \o Descending(ids \ {top})

\* .limit(n)
Limit(rows, n) == SubSeq(rows, 1, IF n < Len(rows) THEN n ELSE Len(rows))

\* .limit(v): the backend rejects what is no count
LimitError(v) == IF v.t = "num" /\ v.n >= 0 THEN "" ELSE "invalid limit"

\* await supabase.from("pipeline_stages").select("id").eq("slug", stage_slug).single()
\* if (stage) query = query.eq("stage_id", stage.id)
GetLeadsStageLookup(c) ==
    /\ UNCHANGED sseVars
    /\ calls[c].pc = "getLeads_stage"
    /\ \E fail \in BOOLEAN :
        LET ids == StagesBySlug(calls[c].params.stage_slug)
            err == SingleError(ids, fail)
            call == Issue(calls[c], "select_stage", err)
        IN  calls' = [calls EXCEPT ![c] =
                [call EXCEPT !.stage = SingleData(ids, fail),
                             !.pc = "getLeads_query"]]
    /\ UNCHANGED leads

\* the rows of: from("leads").select(...).order("created_at", desc)
\*   .limit(limit || 50) [.eq("stage_id", stage.id)] [.eq("vendedor_id", vendedor_id)]
GetLeadsRows(table, stage, vendedor, limit) ==
    Limit(Descending({i \in 1..Len(table) :
                /\ stage # 0 => table[i].stage_id = stage
                /\ Truthy(vendedor) => table[i].vendedor_id = vendedor}),
          limit.n)

\* const { data, error } = await query; if (error) throw new Error(...)
GetLeadsQuery(c) ==
    /\ UNCHANGED sseVars
    /\ calls[c].pc = "getLeads_query"
    /\ \E fail \in BOOLEAN :
        LET p == calls[c].params
            limit == OrElse(p.limit, Num(DefaultLeadsLimit))
            err == IF fail THEN BackendFailure
                   ELSE IF LimitError(limit) # "" THEN LimitError(limit)
                   ELSE IF Truthy(p.vendedor_id)
                        THEN UuidFilterError(p.vendedor_id, FALSE)
                   ELSE ""
            call == Issue(calls[c], "select_leads", err)
        IN  calls' = [calls EXCEPT ![c] =
                IF err # ""
                THEN Finish(call, Throw(ErrorMessage(call.variant,
                                            "Failed to fetch leads: ", err)))
                ELSE Finish(call, Return(RowsResult(
                        GetLeadsRows(leads, call.stage, p.vendedor_id, limit))))]
    /\ UNCHANGED leads

----------------------------------------------------------------------------
(* get_pipeline_stats *)

\* (lead.stage as any)?.slug || "unknown"
StatsSlug(row) ==
    IF row.stage_id \in StageIds /\ PipelineStages[row.stage_id].slug # ""
    THEN PipelineStages[row.stage_id].slug
    ELSE "unknown"

\* (lead.stage as any)?.name
StatsStageName(row) ==
    IF row.stage_id \in StageIds
    THEN Str(PipelineStages[row.stage_id].name)
    ELSE Undef

\* one turn of the loop over the fetched leads
StatsAdd(stats, row) ==
    LET slug  == StatsSlug(row)
        bucket == IF slug \in DOMAIN stats THEN stats[slug]
                  ELSE [count |-> 0, total_value |-> Num(0),
                        stage_name |-> StatsStageName(row)]
        value == Prop(row.custom_fields, "valor_estimado")
        counted == [bucket EXCEPT !.count = @ + 1]
        added == IF Truthy(value)
                 THEN [counted EXCEPT !.total_value = NumAdd(@, ToNumber(value))]
                 ELSE counted
    IN  [k \in DOMAIN stats \cup {slug} |-> IF k = slug THEN added ELSE stats[k]]

RECURSIVE StatsLoop(_, _, _)
\* for (const lead of data || []) { ... }
StatsLoop(stats, data, i) ==
    IF i > Len(data) THEN stats
    ELSE StatsLoop(StatsAdd(stats, data[i]), data, i + 1)

Aggregate(data) == StatsLoop(EmptyStats, data, 1)

\* index.ts: if (error) throw new Error(`Failed to fetch stats`)
StdioStats(call, err) ==
    IF err # ""
    THEN Finish(call, Throw("Failed to fetch stats: " \o err))
    ELSE Finish(call, Return(StatsResult(Aggregate(leads))))

\* server.ts, part_000: const { data } = await ...; for (const lead of data || [])
LooseStats(call, err) ==
    Finish(call, Return(StatsResult(Aggregate(IF err # "" THEN <<>> ELSE leads))))

\* await supabase.from("leads").select(`stage_id, custom_fields, stage:...`)
GetPipelineStatsQuery(c) ==
    /\ UNCHANGED sseVars
    /\ calls[c].pc = "getPipelineStats_query"
    /\ \E fail \in BOOLEAN :
        LET err == IF fail THEN BackendFailure ELSE ""
            call == Issue(calls[c], "select_leads", err)
        IN  calls' = [calls EXCEPT ![c] =
                IF call.variant = "stdio"
                THEN StdioStats(call, err)
                ELSE LooseStats(call, err)]
    /\ UNCHANGED leads

----------------------------------------------------------------------------
(* search_price_catalog *)

PriceCatalog ==
    << [product_name |-> "Tinta",  description |-> "fosca",  category |-> "tinta",
        active |-> TRUE],
       [product_name |-> "Verniz", description |-> "brilho", category |-> "acab",
        active |-> TRUE],
       [product_name |-> "Tinta",  description |-> "velha",  category |-> "tinta",
        active |-> FALSE] >>

UpperLetters == <<"A", "B", "C", "D", "E", "F", "G", "H", "I", "J", "K", "L", "M",
                  "N", "O", "P", "Q", "R", "S", "T", "U", "V", "W", "X", "Y", "Z">>
LowerLetters == <<"a", "b", "c", "d", "e", "f", "g", "h", "i", "j", "k", "l", "m",
                  "n", "o", "p", "q", "r", "s", "t", "u", "v", "w", "x", "y", "z">>

LowerChar(ch) ==
    IF \E i \in 1..Len(UpperLetters) : UpperLetters[i] = ch
    THEN LowerLetters[CHOOSE i \in 1..Len(UpperLetters) : UpperLetters[i] = ch]
    ELSE ch

LowerCase(cs) == [i \in 1..Len(cs) |-> LowerChar(cs[i])]

\* text ILIKE %q%
ILikeContains(text, q) ==
    LET t == LowerCase(CharsOf(text))
        w == LowerCase(CharsOf(q))
    IN  \E i \in 0..(Len(t) - Len(w)) : SubSeq(t, i + 1, i + Len(w)) = w

\* .or(`product_name.ilike.%q%,description.ilike.%q%[,category.ilike.%q%]`):
\* index.ts also matches the category
TextMatch(v, row, q) ==
    \/ ILikeContains(row.product_name, q)
    \/ ILikeContains(row.description, q)
    \/ (v = "stdio" /\ ILikeContains(row.category, q))

\* the rows of: from("price_catalog").select("*").eq("active", true)
\*   .limit(limit || 10) [.or(...)] [.eq("category", category)]
CatalogRows(v, query, category, limit) ==
    LET hits == {i \in 1..Len(PriceCatalog) :
                    /\ PriceCatalog[i].active
                    /\ Truthy(query) => TextMatch(v, PriceCatalog[i], query.s)
                    /\ Truthy(category) => PriceCatalog[i].category = category.s}
        Ascending[ids \in SUBSET (1..Len(PriceCatalog))] ==
            IF ids = {} THEN <<>>
            ELSE LET low == CHOOSE i \in ids : \A j \in ids : i <= j
                 IN  <<low>> \o Ascending[ids \ {low}]
    IN  Limit(Ascending[hits], limit.n)

\* const { data, error } = await query; if (error) throw new Error(...)
SearchPriceCatalogQuery(c) ==
    /\ UNCHANGED sseVars
    /\ calls[c].pc = "searchPriceCatalog_query"
    /\ \E fail \in BOOLEAN :
        LET p == calls[c].params
            limit == OrElse(p.limit, Num(DefaultCatalogLimit))
            err == IF fail THEN BackendFailure ELSE LimitError(limit)
            call == Issue(calls[c], "select_catalog", err)
        IN  calls' = [calls EXCEPT ![c] =
                IF err # ""
                THEN Finish(call, Throw(ErrorMessage(call.variant,
                                            "Failed to search catalog: ", err)))
                ELSE Finish(call, Return(RowsResult(
                        CatalogRows(call.variant, p.query, p.category, limit))))]
    /\ UNCHANGED leads

----------------------------------------------------------------------------
(* get_lead_history *)

\* lead_history, oldest first; the backend writes it
LeadHistory == << [lead_id |-> 1], [lead_id |-> 2], [lead_id |-> 1] >>

\* from("lead_history").select(...).eq("lead_id", lead_id).order("created_at", desc)
HistoryRows(lead_id) ==
    Descending({i \in 1..Len(LeadHistory) : LeadHistory[i].lead_id = lead_id.n})

\* const { data, error } = await ...; if (error) throw new Error(...)
GetLeadHistoryQuery(c) ==
    /\ UNCHANGED sseVars
    /\ calls[c].pc = "getLeadHistory_query"
    /\ \E fail \in BOOLEAN :
        LET err == UuidFilterError(calls[c].params.lead_id, fail)
            call == Issue(calls[c], "select_history", err)
        IN  calls' = [calls EXCEPT ![c] =
                IF err # ""
                THEN Finish(call, Throw(ErrorMessage(call.variant,
                                            "Failed to fetch history: ", err)))
                ELSE Finish(call, Return(RowsResult(HistoryRows(call.params.lead_id))))]
    /\ UNCHANGED leads

----------------------------------------------------------------------------
(* The requests the clients send *)

\* one client with one call in flight at a time
Slots == {1}

Req(name, args) == [name |-> name, args |-> args]

Seller == Uuid(1)
\* the id of a lead that does not exist
Nobody == Uuid(MaxLeads + 1)

FieldMaps ==
    { EmptyMap,
      [k \in {"a"} |-> Num(1)],
      [k \in {"a"} |-> Num(2)],
      [k \in {"b"} |-> Num(2)] }

UpdateFieldsRequests ==
    {Req("update_lead_custom_fields",
         [NoArgs EXCEPT !.lead_id = id, !.custom_fields = Obj(m)]) :
        id \in {Uuid(1), Nobody}, m \in FieldMaps}
    \cup
    {Req("update_lead_custom_fields",
         [NoArgs EXCEPT !.lead_id = id, !.custom_fields = o]) :
        id \in {Uuid(1), Str("abc"), Undef}, o \in {UndefObj, NullObj}}

StageSlugs == {Undef, Str("lead"), Str("fechado"), Str("zzz"), Str("")}

CreateLeadBase ==
    [NoArgs EXCEPT !.name = Str("Tinta"), !.vendedor_id = Seller]

CreateLeadRequests ==
    {Req("create_lead", [CreateLeadBase EXCEPT !.stage_slug = slug, !.position = pos]) :
        slug \in StageSlugs, pos \in {Undef, Num(7)}}

UpdateStageRequests ==
    {Req("update_lead_stage",
         [NoArgs EXCEPT !.lead_id = Uuid(1), !.new_stage_slug = slug]) :
        slug \in StageSlugs}
    \cup
    {Req("update_lead_stage",
         [NoArgs EXCEPT !.lead_id = id, !.new_stage_slug = Str("fechado")]) :
        id \in {Nobody, Str("abc"), Undef}}

\* a few requests for each tool, and names that are not registered
AllRequests ==
    {Req("get_leads", a) : a \in
        { NoArgs,
          [NoArgs EXCEPT !.stage_slug = Str("lead")],
          [NoArgs EXCEPT !.stage_slug = Str("zzz")],
          [NoArgs EXCEPT !.vendedor_id = Seller, !.limit = Num(1)],
          [NoArgs EXCEPT !.vendedor_id = Str("abc")],
          [NoArgs EXCEPT !.limit = Str("abc")] }}
    \cup
    {Req("update_lead_stage", a) : a \in
        { [NoArgs EXCEPT !.lead_id = Uuid(1), !.new_stage_slug = Str("fechado")],
          [NoArgs EXCEPT !.lead_id = Uuid(1), !.new_stage_slug = Str("zzz")],
          [NoArgs EXCEPT !.lead_id = Nobody, !.new_stage_slug = Str("lead")],
          [NoArgs EXCEPT !.new_stage_slug = Str("lead")] }}
    \cup
    {Req("update_lead_custom_fields", a) : a \in
        { [NoArgs EXCEPT !.lead_id = Uuid(1),
                         !.custom_fields = Obj([k \in {"a"} |-> Num(1)])],
          [NoArgs EXCEPT !.lead_id = Nobody,
                         !.custom_fields = Obj([k \in {"a"} |-> Num(1)])],
          [NoArgs EXCEPT !.lead_id = Uuid(1)] }}
    \cup
    {Req("create_lead", a) : a \in
        { CreateLeadBase,
          [CreateLeadBase EXCEPT !.stage_slug = Str("zzz")],
          [CreateLeadBase EXCEPT !.email = Str("abc")] }}
    \cup
    {Req("search_price_catalog", a) : a \in
        { [NoArgs EXCEPT !.query = Str("tin")],
          [NoArgs EXCEPT !.query = Str("acab"), !.category = Str("acab")],
          [NoArgs EXCEPT !.query = Str("zzz"), !.limit = Num(1)],
          NoArgs }}
    \cup
    {Req("get_lead_history", a) : a \in
        { [NoArgs EXCEPT !.lead_id = Uuid(1)],
          [NoArgs EXCEPT !.lead_id = Str("abc")],
          NoArgs }}
    \cup
    {Req(name, NoArgs) : name \in {"get_pipeline_stats", "list_leads", "toString"}}

----------------------------------------------------------------------------
(* The specifications *)

\* the leads of the backend when the server starts
SomeLeads ==
    << LeadRow(1, Seller, Obj([k \in {"a"} |-> Num(1)]), 0, Str("Tinta")),
       LeadRow(0, Seller, NullObj, 0, Str("Verniz")) >>

Init ==
    /\ leads = SomeLeads
    /\ calls = [c \in Slots |-> IdleCall]
    /\ SseIdle

Next ==
    \/ \E c \in Slots, v \in Variants, r \in AllRequests :
            Invoke(c, v, r.name, r.args, NoPrev)
    \/ \E c \in Slots : GetLeadsStageLookup(c)
    \/ \E c \in Slots : GetLeadsQuery(c)
    \/ \E c \in Slots : UpdateLeadStageLookup(c)
    \/ \E c \in Slots : UpdateLeadStageUpdate(c)
    \/ \E c \in Slots : UpdateLeadCustomFieldsFetch(c)
    \/ \E c \in Slots : UpdateLeadCustomFieldsUpdate(c)
    \/ \E c \in Slots : CreateLeadStageLookup(c)
    \/ \E c \in Slots : CreateLeadCount(c)
    \/ \E c \in Slots : CreateLeadInsert(c)
    \/ \E c \in Slots : SearchPriceCatalogQuery(c)
    \/ \E c \in Slots : GetLeadHistoryQuery(c)
    \/ \E c \in Slots : GetPipelineStatsQuery(c)

Spec == Init /\ [][Next]_vars

\* update_lead_custom_fields alone, on tables of one or two leads
MergeTables ==
    { << LeadRow(1, Seller, Obj([k \in {"a"} |-> Num(1)]), 0, Str("Tinta")) >>,
      << LeadRow(1, Seller, NullObj, 0, Str("Tinta")),
         LeadRow(2, Seller, Obj([k \in {"b"} |-> Num(2)]), 0, Str("Verniz")) >> }

InitMerge ==
    /\ leads \in MergeTables
    /\ calls = [c \in Slots |-> IdleCall]
    /\ SseIdle

NextMerge ==
    \/ \E c \in Slots, v \in Variants, r \in UpdateFieldsRequests :
            Invoke(c, v, r.name, r.args, Remember(calls[c]))
    \/ \E c \in Slots : UpdateLeadCustomFieldsFetch(c)
    \/ \E c \in Slots : UpdateLeadCustomFieldsUpdate(c)

SpecMerge == InitMerge /\ [][NextMerge]_vars

\* create_lead and update_lead_stage, from tables that hold one and two
\* leads of the first stage
StageTables ==
    { << LeadRow(1, Seller, Obj(EmptyMap), 0, Str("Tinta")) >>,
      << LeadRow(1, Seller, Obj(EmptyMap), 0, Str("Tinta")),
         LeadRow(1, Seller, Obj(EmptyMap), 1, Str("Verniz")) >> }

InitStage ==
    /\ leads \in StageTables
    /\ calls = [c \in Slots |-> IdleCall]
    /\ SseIdle

NextStage ==
    \/ \E c \in Slots, v \in Variants, r \in CreateLeadRequests \cup UpdateStageRequests :
            Invoke(c, v, r.name, r.args, NoPrev)
    \/ \E c \in Slots : UpdateLeadStageLookup(c)
    \/ \E c \in Slots : UpdateLeadStageUpdate(c)
    \/ \E c \in Slots : CreateLeadStageLookup(c)
    \/ \E c \in Slots : CreateLeadCount(c)
    \/ \E c \in Slots : CreateLeadInsert(c)

SpecStage == InitStage /\ [][NextStage]_vars

\* get_pipeline_stats on every table of at most MaxLeads leads of these rows
StatsFields ==
    { NullObj, Obj(EmptyMap),
      Obj([k \in {"valor_estimado"} |-> Num(100)]),
      Obj([k \in {"valor_estimado"} |-> Str("200")]),
      Obj([k \in {"valor_estimado"} |-> Str("abc")]) }

StatsRows == {LeadRow(st, Seller, cf, 0, Str("Tinta")) : st \in {0, 1, 2}, cf \in StatsFields}

StatsTables == UNION {[1..n -> StatsRows] : n \in 0..MaxLeads}

InitStats ==
    /\ leads \in StatsTables
    /\ calls = [c \in Slots |-> IdleCall]
    /\ SseIdle

NextStats ==
    \/ \E c \in Slots, v \in Variants : Invoke(c, v, "get_pipeline_stats", NoArgs, NoPrev)
    \/ \E c \in Slots : GetPipelineStatsQuery(c)

SpecStats == InitStats /\ [][NextStats]_vars

\* search_price_catalog alone: text queries, categories and limits
CatalogRequests ==
    {Req("search_price_catalog",
         [NoArgs EXCEPT !.query = q, !.category = cat, !.limit = n]) :
        q \in {Undef, Str("tin"), Str("FOS"), Str("acab"), Str("zzz"), Str("")},
        cat \in {Undef, Str("tinta"), Str("acab"), Str("zzz"), Str("")},
        n \in {Undef, Num(0), Num(1), Num(2)}}

NextCatalog ==
    \/ \E c \in Slots, v \in Variants, r \in CatalogRequests :
            Invoke(c, v, r.name, r.args, NoPrev)
    \/ \E c \in Slots : SearchPriceCatalogQuery(c)

SpecCatalog == Init /\ [][NextCatalog]_vars

----------------------------------------------------------------------------
(* The claims *)

Done(c) == calls[c].pc = "done"

InFlight(c) == calls[c].pc \notin {"idle", "done"}

WriteOps == {"update_lead", "insert_lead"}

NoWrite(call) == \A i \in 1..Len(call.ops) : call.ops[i] \notin WriteOps

\* the next backend call of call c
Step(c) ==
    \/ GetLeadsStageLookup(c)
    \/ GetLeadsQuery(c)
    \/ UpdateLeadStageLookup(c)
    \/ UpdateLeadStageUpdate(c)
    \/ UpdateLeadCustomFieldsFetch(c)
    \/ UpdateLeadCustomFieldsUpdate(c)
    \/ CreateLeadStageLookup(c)
    \/ CreateLeadCount(c)
    \/ CreateLeadInsert(c)
    \/ SearchPriceCatalogQuery(c)
    \/ GetLeadHistoryQuery(c)
    \/ GetPipelineStatsQuery(c)

\* call c is an update of the custom fields of a lead that existed when it began
MergesExisting(c) ==
    /\ Done(c)
    /\ calls[c].name = "update_lead_custom_fields"
    /\ calls[c].args.custom_fields.t = "obj"
    /\ calls[c].args.lead_id.t = "uuid"
    /\ calls[c].args.lead_id.n \in 1..Len(calls[c].pre)

\* C1: a successful update_lead_custom_fields(lead, M) on a lead that stores F,
\* with no other call in flight, leaves exactly the shallow merge of F and M:
\* the keys of M with M's values, the other keys of F with F's values, no other key.
MergeIsShallow ==
    \A c \in Slots :
        (MergesExisting(c) /\ Succeeded(calls[c].resp)) =>
            LET id == calls[c].args.lead_id.n
                M  == calls[c].args.custom_fields.m
                F  == OwnProps(calls[c].pre[id].custom_fields)
                S  == leads[id].custom_fields
            IN  /\ S.t = "obj"
                /\ DOMAIN S.m = DOMAIN F \cup DOMAIN M
                /\ \A k \in DOMAIN M : S.m[k] = M[k]
                /\ \A k \in DOMAIN F \ DOMAIN M : S.m[k] = F[k]

\* C2: two update_lead_custom_fields calls in a row on one lead, with M1 then
\* M2, leave every entry of M2 and every entry of M1 whose key is not in M2;
\* and a second application of the same map changes nothing.
SequentialMergesAccumulate ==
    \A c \in Slots :
        ( /\ MergesExisting(c)
          /\ Succeeded(calls[c].resp)
          /\ calls[c].prev.name = "update_lead_custom_fields"
          /\ calls[c].prev.ok
          /\ calls[c].prev.lead = calls[c].args.lead_id.n ) =>
            LET id == calls[c].args.lead_id.n
                M1 == calls[c].prev.fields
                M2 == calls[c].args.custom_fields.m
                S  == leads[id].custom_fields
            IN  /\ S.t = "obj"
                /\ \A k \in DOMAIN M2 : k \in DOMAIN S.m /\ S.m[k] = M2[k]
                /\ \A k \in DOMAIN M1 \ DOMAIN M2 : k \in DOMAIN S.m /\ S.m[k] = M1[k]
                /\ M1 = M2 => S = calls[c].pre[id].custom_fields

\* the stage slug that a call of update_lead_stage or create_lead names
SlugOf(call) ==
    IF call.name = "create_lead" THEN call.args.stage_slug
    ELSE call.args.new_stage_slug

\* C3: with a stage slug that matches no stage, update_lead_stage and
\* create_lead end in a StageNotFound failure, and no lead is added or changed.
UnknownSlugFails ==
    \A c \in Slots :
        ( /\ Done(c)
          /\ calls[c].name \in {"update_lead_stage", "create_lead"}
          /\ IsString(SlugOf(calls[c]))
          /\ StagesBySlug(SlugOf(calls[c])) = {} ) =>
            /\ Failed(calls[c].resp)
            /\ calls[c].resp.msg = "Stage not found"
            /\ NoWrite(calls[c])
            /\ leads = calls[c].pre

\* the stage create_lead is asked for: the given slug, "lead" when none is given
TargetStage(call) ==
    CHOOSE i \in StagesBySlug(IF call.args.stage_slug.t = "undef"
                              THEN Str(DefaultStageSlug)
                              ELSE call.args.stage_slug) : TRUE

\* C4: a create_lead that succeeds for a target stage of N leads, with no other
\* call in flight, inserts one lead, at position N of that stage, whatever the
\* arguments say; the stage then holds N + 1 leads.
NewLeadIsAppended ==
    \A c \in Slots :
        ( /\ Done(c)
          /\ calls[c].name = "create_lead"
          /\ Succeeded(calls[c].resp)
          /\ \/ calls[c].args.stage_slug.t = "undef"
             \/ StagesBySlug(calls[c].args.stage_slug) # {} ) =>
            LET target == TargetStage(calls[c])
                N   == Cardinality(LeadsByStage(calls[c].pre, target))
                new == calls[c].resp.result.lead
            IN  /\ Len(leads) = Len(calls[c].pre) + 1
                /\ new = Len(leads)
                /\ SubSeq(leads, 1, Len(calls[c].pre)) = calls[c].pre
                /\ leads[new].stage_id = target
                /\ leads[new].position = N
                /\ Cardinality(LeadsByStage(leads, target)) = N + 1

\* C5: in every variant, update_lead_custom_fields on a lead id that matches no
\* lead fails with LeadNotFound, decided by the fetch, and issues no update.
MissingLeadIsLeadNotFound ==
    \A c \in Slots :
        ( /\ Done(c)
          /\ calls[c].name = "update_lead_custom_fields"
          /\ calls[c].args.custom_fields.t = "obj"
          /\ calls[c].args.lead_id.t = "uuid"
          /\ LeadsById(calls[c].pre, calls[c].args.lead_id) = {} ) =>
            /\ Failed(calls[c].resp)
            /\ calls[c].resp.msg = "Lead not found"
            /\ calls[c].ops = <<"select_lead">>
            /\ leads = calls[c].pre

\* the messages of an UnknownTool failure: "Unknown tool: ..." of index.ts and
\* part_000, "Tool not found: ..." of server.ts
UnknownToolMessages == {"Unknown tool", "Tool not found"}

\* C6: a name that is none of the seven registered tools ends in an UnknownTool
\* failure response, and no backend call is issued, in every variant.
UnknownToolIsRejected ==
    \A c \in Slots :
        (calls[c].pc # "idle" /\ calls[c].name \notin ToolNames) =>
            /\ Done(c)
            /\ Failed(calls[c].resp)
            /\ calls[c].resp.msg \in UnknownToolMessages
            /\ calls[c].ops = <<>>
            /\ leads = calls[c].pre

\* C7: arguments that do not fit the tool's declared input shape end in a
\* ValidationError before the handler runs, with no backend call, in every
\* variant.
InvalidArgumentsAreRejected ==
    \A c \in Slots :
        ( /\ calls[c].pc # "idle"
          /\ calls[c].name \in ToolNames
          /\ ~Parse(calls[c].name, calls[c].args).ok ) =>
            /\ Done(c)
            /\ Failed(calls[c].resp)
            /\ calls[c].resp.msg = "ZodError"
            /\ calls[c].ops = <<>>

\* an error was raised while the call was dispatched or its handler ran
Raised(call) == call.thrown \/ call.name \notin ToolNames

\* C8: every error raised in the dispatch or in a handler is caught at the
\* boundary: a call in flight can always take its next step, a finished call
\* has a response, and the response of a call that raised an error is marked
\* as a failure and carries the error text.
ErrorsBecomeFailureResponses ==
    \A c \in Slots :
        /\ InFlight(c) => ENABLED Step(c)
        /\ Done(c) =>
              /\ ~calls[c].resp.unhandled
              /\ Raised(calls[c]) =>
                    /\ Failed(calls[c].resp)
                    /\ calls[c].resp.text # ""
                    /\ calls[c].resp.msg # ""

\* a backend error that a handler threw has come back as a failure response
BackendErrorIsAnswered ==
    \E c \in Slots :
        /\ Done(c)
        /\ calls[c].thrown
        /\ calls[c].errs # {}
        /\ Failed(calls[c].resp)
        /\ calls[c].resp.text # ""

\* C9: when a backend call of an invocation reports an error, the invocation
\* ends in a failure response.
BackendErrorsAreSurfaced ==
    \A c \in Slots :
        (Done(c) /\ calls[c].errs # {}) => Failed(calls[c].resp)

\* the numeric value of valor_estimado, zero when absent or not numeric
EstimatedValue(row) ==
    LET v == Prop(row.custom_fields, "valor_estimado")
    IN  IF v.t # "undef" /\ ToNumber(v).t = "num" THEN ToNumber(v).n ELSE 0

RECURSIVE SumOfValues(_, _)
SumOfValues(table, ids) ==
    IF ids = {} THEN 0
    ELSE LET i == CHOOSE j \in ids : TRUE
         IN  EstimatedValue(table[i]) + SumOfValues(table, ids \ {i})

\* C10: get_pipeline_stats returns for each stage slug the sum of the numeric
\* values of valor_estimado of the leads of that stage, a lead without a
\* numeric valor_estimado adding zero.
TotalValueIsNumericSum ==
    \A c \in Slots :
        ( /\ Done(c)
          /\ calls[c].name = "get_pipeline_stats"
          /\ Succeeded(calls[c].resp) ) =>
            \A k \in DOMAIN calls[c].resp.result.stats :
                calls[c].resp.result.stats[k].total_value =
                    Num(SumOfValues(leads,
                            {i \in 1..Len(leads) : StatsSlug(leads[i]) = k}))

\* the leads of a table whose bucket is k
BucketOf(table, k) == {i \in 1..Len(table) : StatsSlug(table[i]) = k}

\* C11: get_pipeline_stats counts every lead in exactly one bucket, the one of
\* its stage's slug or "unknown": a bucket's count is the number of the leads
\* of that slug, the counts add up to the number of leads, and no bucket is
\* empty.
StatsPartitionLeads ==
    \A c \in Slots :
        ( /\ Done(c)
          /\ calls[c].name = "get_pipeline_stats"
          /\ Succeeded(calls[c].resp) ) =>
            LET stats == calls[c].resp.result.stats
            IN  /\ DOMAIN stats = {StatsSlug(leads[i]) : i \in 1..Len(leads)}
                /\ \A k \in DOMAIN stats :
                      /\ stats[k].count = Cardinality(BucketOf(leads, k))
                      /\ stats[k].count > 0

\* C12: get_leads with a stage slug that matches no stage does not fail for
\* it and returns what the same call without stage_slug returns; with a slug
\* that matches a stage, every returned lead is of that stage.
StageFilterOfGetLeads ==
    \A c \in Slots :
        ( /\ Done(c)
          /\ calls[c].name = "get_leads"
          /\ IsString(calls[c].args.stage_slug) ) =>
            LET p     == calls[c].params
                found == StagesBySlug(calls[c].args.stage_slug)
                rows  == calls[c].resp.result.rows
            IN  IF found = {}
                THEN /\ Failed(calls[c].resp) => "select_leads" \in calls[c].errs
                     /\ Succeeded(calls[c].resp) =>
                            rows = GetLeadsRows(leads, 0, p.vendedor_id,
                                        OrElse(p.limit, Num(DefaultLeadsLimit)))
                ELSE Succeeded(calls[c].resp) =>
                        \A i \in 1..Len(rows) : leads[rows[i]].stage_id \in found

\* the limit a call of search_price_catalog asks for
CatalogLimitOf(call) ==
    IF call.args.limit.t = "num" THEN call.args.limit.n ELSE DefaultCatalogLimit

\* C13: every row search_price_catalog returns is active; with a category,
\* every row has that category and matches the text query as well; at most
\* limit rows (10 by default) are returned; and a search that matches nothing
\* succeeds with an empty list.
CatalogSearchFilters ==
    \A c \in Slots :
        ( /\ Done(c)
          /\ calls[c].name = "search_price_catalog"
          /\ IsString(calls[c].args.query) ) =>
            LET a    == calls[c].args
                rows == calls[c].resp.result.rows
            IN  /\ Failed(calls[c].resp) => calls[c].errs # {}
                /\ Succeeded(calls[c].resp) =>
                      /\ Len(rows) <= CatalogLimitOf(calls[c])
                      /\ \A i \in 1..Len(rows) :
                            /\ PriceCatalog[rows[i]].active
                            /\ IsString(a.category) =>
                                  /\ PriceCatalog[rows[i]].category = a.category.s
                                  /\ TextMatch(calls[c].variant,
                                               PriceCatalog[rows[i]], a.query.s)

----------------------------------------------------------------------------
(* Two clients *)

Clients == {1, 2}

\* the same requests sent over different transports, one call at a time
SurfaceRequests ==
    { Req("search_price_catalog", [NoArgs EXCEPT !.query = Str("acab")]),
      Req("search_price_catalog", [NoArgs EXCEPT !.query = Str("tin")]),
      Req("get_lead_history", [NoArgs EXCEPT !.lead_id = Uuid(1)]),
      Req("get_pipeline_stats", NoArgs),
      Req("create_lead", CreateLeadBase),
      Req("create_lead", [CreateLeadBase EXCEPT !.email = Str("abc")]),
      Req("list_leads", NoArgs) }

InitClients ==
    /\ leads = SomeLeads
    /\ calls = [c \in Clients |-> IdleCall]
    /\ SseIdle

NextSurface ==
    \/ \E c \in Clients, v \in Variants, r \in SurfaceRequests :
            /\ \A d \in Clients : calls[d].pc \in {"idle", "done"}
            /\ Invoke(c, v, r.name, r.args, NoPrev)
    \/ \E c \in Clients : CreateLeadStageLookup(c)
    \/ \E c \in Clients : CreateLeadCount(c)
    \/ \E c \in Clients : CreateLeadInsert(c)
    \/ \E c \in Clients : SearchPriceCatalogQuery(c)
    \/ \E c \in Clients : GetLeadHistoryQuery(c)
    \/ \E c \in Clients : GetPipelineStatsQuery(c)

SpecSurface == InitClients /\ [][NextSurface]_vars

\* success, or the kind of the failure
OutcomeKind(resp) ==
    IF ~Failed(resp) THEN "ok"
    ELSE IF resp.msg \in UnknownToolMessages THEN "UnknownTool"
    ELSE resp.msg

\* C14: the same tool with the same arguments on the same backend state, the
\* backend reporting no error, ends the same way in the three variants: the
\* same kind of outcome, the same write or none, the same rows.
VariantsAgree ==
    \A c, d \in Clients :
        ( /\ calls[c].pc = "done" /\ calls[d].pc = "done"
          /\ calls[c].name = calls[d].name
          /\ calls[c].args = calls[d].args
          /\ calls[c].pre = calls[d].pre
          /\ calls[c].errs = {} /\ calls[d].errs = {} ) =>
            /\ OutcomeKind(calls[c].resp) = OutcomeKind(calls[d].resp)
            /\ NoWrite(calls[c]) = NoWrite(calls[d])
            /\ calls[c].resp.result.rows = calls[d].resp.result.rows
            /\ calls[c].resp.result.stats = calls[d].resp.result.stats

\* two calls in flight at the same time: each client sends one request
RaceRequests ==
    { Req("update_lead_custom_fields",
          [NoArgs EXCEPT !.lead_id = Uuid(1),
                         !.custom_fields = Obj([k \in {"a"} |-> Num(1)])]),
      Req("update_lead_custom_fields",
          [NoArgs EXCEPT !.lead_id = Uuid(1),
                         !.custom_fields = Obj([k \in {"b"} |-> Num(2)])]),
      Req("create_lead", CreateLeadBase) }

RaceTables ==
    { << LeadRow(1, Seller, Obj(EmptyMap), 0, Str("Tinta")) >>,
      << LeadRow(1, Seller, Obj([k \in {"a"} |-> Num(2)]), 0, Str("Tinta")) >> }

InitRace ==
    /\ leads \in RaceTables
    /\ calls = [c \in Clients |-> IdleCall]
    /\ SseIdle

NextRace ==
    \/ \E c \in Clients, v \in Variants, r \in RaceRequests :
            /\ calls[c].pc = "idle"
            /\ Invoke(c, v, r.name, r.args, NoPrev)
    \/ \E c \in Clients : UpdateLeadCustomFieldsFetch(c)
    \/ \E c \in Clients : UpdateLeadCustomFieldsUpdate(c)
    \/ \E c \in Clients : CreateLeadStageLookup(c)
    \/ \E c \in Clients : CreateLeadCount(c)
    \/ \E c \in Clients : CreateLeadInsert(c)

SpecRace == InitRace /\ [][NextRace]_vars

\* client c has finished the tool `name` with success, and the backend
\* reported no error to it
Completed(c, name) ==
    /\ calls[c].pc = "done"
    /\ calls[c].name = name
    /\ Succeeded(calls[c].resp)
    /\ calls[c].errs = {}

\* what two updates with maps M1 and M2 of fields F can leave: both maps, in
\* either order, or the fields with one map alone
MergeOutcomes(F, M1, M2) ==
    { Spread(Spread(F, M1), M2), Spread(Spread(F, M2), M1),
      Spread(F, M1), Spread(F, M2) }

\* C15: two update_lead_custom_fields on one lead are not serialized.  The
\* fetch and the write of a call are two backend steps, and two calls that
\* both succeed leave the fields the lead had, merged with both maps or
\* merged with the map of one call alone.
ConcurrentMergesAreNotSerialized ==
    /\ \A c \in Clients :
          calls[c].pc = "updateLeadCustomFields_update" =>
              calls[c].ops = <<"select_lead">>
    /\ \A c, d \in Clients :
          ( /\ c # d
            /\ Completed(c, "update_lead_custom_fields")
            /\ Completed(d, "update_lead_custom_fields") ) =>
              \E F \in {OwnProps(calls[c].pre[1].custom_fields),
                        OwnProps(calls[d].pre[1].custom_fields)} :
                  leads[1].custom_fields.m \in
                      MergeOutcomes(F, calls[c].args.custom_fields.m,
                                       calls[d].args.custom_fields.m)

\* both calls report success, and the lead that began with no field holds
\* the key of one call alone
LostUpdate ==
    \E c, d \in Clients :
        /\ c # d
        /\ Completed(c, "update_lead_custom_fields")
        /\ Completed(d, "update_lead_custom_fields")
        /\ calls[c].pre[1].custom_fields = Obj(EmptyMap)
        /\ calls[d].pre[1].custom_fields = Obj(EmptyMap)
        /\ calls[c].args.custom_fields.m = [k \in {"a"} |-> Num(1)]
        /\ calls[d].args.custom_fields.m = [k \in {"b"} |-> Num(2)]
        /\ leads[1].custom_fields = Obj([k \in {"b"} |-> Num(2)])

\* the new lead of a create_lead that has succeeded
Created(c) == calls[c].resp.result.lead

\* C16: two create_lead into one stage of N leads.  The lead inserted first
\* has position N.  The other has position N + 1 when its call began after
\* the first had ended, and N or N + 1 when the two calls overlapped.
ConcurrentCreatesShareCount ==
    \A c, d \in Clients :
        ( /\ Completed(c, "create_lead")
          /\ Completed(d, "create_lead")
          /\ Created(c) < Created(d) ) =>
            LET stage == leads[Created(c)].stage_id
                N     == Cardinality(LeadsByStage(calls[c].pre, stage))
            IN  /\ leads[Created(d)].stage_id = stage
                /\ leads[Created(c)].position = N
                /\ leads[Created(d)].position \in {N, N + 1}
                /\ Len(calls[d].pre) > Len(calls[c].pre) =>
                      leads[Created(d)].position = N + 1

\* both calls have succeeded and their leads have the same position
SamePosition ==
    \E c, d \in Clients :
        /\ Completed(c, "create_lead")
        /\ Completed(d, "create_lead")
        /\ Created(c) < Created(d)
        /\ leads[Created(c)].stage_id = leads[Created(d)].stage_id
        /\ leads[Created(c)].position = leads[Created(d)].position
        /\ leads[Created(c)].position =
              Cardinality(LeadsByStage(calls[c].pre, leads[Created(c)].stage_id))

\* two clients that send request after request, their calls interleaved
ClientRequests ==
    { Req("create_lead", CreateLeadBase),
      Req("update_lead_stage",
          [NoArgs EXCEPT !.lead_id = Uuid(1), !.new_stage_slug = Str("fechado")]),
      Req("update_lead_custom_fields",
          [NoArgs EXCEPT !.lead_id = Uuid(2),
                         !.custom_fields = Obj([k \in {"a"} |-> Num(1)])]) }

\* the first client speaks MCP over stdio or SSE, the second HTTP
ClientVariants(c) == IF c = 1 THEN {"stdio", "sse"} ELSE {"http"}

NextClients ==
    \/ \E c \in Clients, r \in ClientRequests :
            \E v \in ClientVariants(c) : Invoke(c, v, r.name, r.args, NoPrev)
    \/ \E c \in Clients : UpdateLeadStageLookup(c)
    \/ \E c \in Clients : UpdateLeadStageUpdate(c)
    \/ \E c \in Clients : UpdateLeadCustomFieldsFetch(c)
    \/ \E c \in Clients : UpdateLeadCustomFieldsUpdate(c)
    \/ \E c \in Clients : CreateLeadStageLookup(c)
    \/ \E c \in Clients : CreateLeadCount(c)
    \/ \E c \in Clients : CreateLeadInsert(c)

SpecClients == InitClients /\ [][NextClients]_vars

\* the number of backend calls `op` that a call has issued
Issued(call, op) == Cardinality({i \in 1..Len(call.ops) : call.ops[i] = op})

\* C17: the set of lead ids never shrinks; a step adds at most one lead, and
\* only as the insert of a create_lead that ends in success with that lead,
\* the only insert of its call.
LeadsOnlyGrowByCreate ==
    [][ /\ Len(leads') >= Len(leads)
        /\ Len(leads') > Len(leads) =>
              /\ Len(leads') = Len(leads) + 1
              /\ \E c \in Clients :
                    /\ calls[c].name = "create_lead"
                    /\ calls[c].pc = "createLead_insert"
                    /\ calls'[c].pc = "done"
                    /\ Succeeded(calls'[c].resp)
                    /\ calls'[c].resp.result.lead = Len(leads')
                    /\ Issued(calls'[c], "insert_lead") = 1 ]_vars

\* a create_lead has succeeded and its lead is in the table
LeadAdded ==
    \E c \in Clients :
        /\ calls[c].pc = "done"
        /\ calls[c].name = "create_lead"
        /\ Succeeded(calls[c].resp)
        /\ Len(leads) > Len(SomeLeads)
        /\ calls[c].resp.result.lead = Len(leads)

\* the table of each backend call: supabase.from(<table>)
OpTable ==
    [op \in {"select_stage"} |-> "pipeline_stages"] @@
    [op \in {"select_lead", "count_leads", "select_leads",
             "update_lead", "insert_lead"} |-> "leads"] @@
    [op \in {"select_catalog"} |-> "price_catalog"] @@
    [op \in {"select_history", "insert_history"} |-> "lead_history"]

\* the backend calls that are selects
ReadOps == {"select_stage", "select_lead", "count_leads", "select_leads",
            "select_catalog", "select_history"}

ReadOnlyTools ==
    {"get_leads", "search_price_catalog", "get_lead_history", "get_pipeline_stats"}

\* C18: the only table an invocation writes is leads, whether it succeeds or
\* fails; and the four read-only tools issue selects alone and leave the leads
\* as they were.
OnlyLeadsAreWritten ==
    \A c \in Slots :
        /\ \A i \in 1..Len(calls[c].ops) :
              /\ calls[c].ops[i] \in DOMAIN OpTable
              /\ calls[c].ops[i] \notin ReadOps =>
                    OpTable[calls[c].ops[i]] = "leads"
        /\ calls[c].name \in ReadOnlyTools =>
              /\ \A i \in 1..Len(calls[c].ops) : calls[c].ops[i] \in ReadOps
              /\ leads = calls[c].pre

\* an update_lead_stage has written the leads table
LeadsTableWritten ==
    \E c \in Slots :
        /\ Done(c)
        /\ calls[c].name = "update_lead_stage"
        /\ Succeeded(calls[c].resp)
        /\ calls[c].ops = <<"select_stage", "update_lead">>
        /\ leads # calls[c].pre

\* C19: a successful update_lead_stage(lead, slug) sets the stage of that lead
\* to the stage of the slug and changes nothing else, in that lead or in any
\* other; with a lead id that matches no lead the call fails and no lead changes.
UpdateLeadStageFrame ==
    \A c \in Slots :
        (Done(c) /\ calls[c].name = "update_lead_stage") =>
            LET a == calls[c].args
            IN  /\ Succeeded(calls[c].resp) =>
                      \E id \in 1..Len(calls[c].pre), st \in StagesBySlug(a.new_stage_slug) :
                          /\ a.lead_id = Uuid(id)
                          /\ calls[c].resp.result.lead = id
                          /\ leads = [calls[c].pre EXCEPT ![id].stage_id = st]
                /\ LeadsById(calls[c].pre, a.lead_id) = {} =>
                      /\ Failed(calls[c].resp)
                      /\ leads = calls[c].pre

\* a lead of stage lead has been moved to stage fechado
LeadMoved ==
    \E c \in Slots :
        /\ Done(c)
        /\ calls[c].name = "update_lead_stage"
        /\ Succeeded(calls[c].resp)
        /\ calls[c].args.new_stage_slug = Str("fechado")
        /\ calls[c].pre[1].stage_id = 1
        /\ leads[1].stage_id = 2

\* C20: a handler issues at most one write, as its last backend call; so a
\* call that ends in a failure response, whichever step failed, leaves the
\* backend as it was before the call.
OneWriteAndLast ==
    \A c \in Slots :
        /\ \A i \in 1..Len(calls[c].ops) :
              calls[c].ops[i] \in WriteOps => (i = Len(calls[c].ops) /\ Done(c))
        /\ (Done(c) /\ Failed(calls[c].resp)) => leads = calls[c].pre

\* a call has failed at a step that follows other steps: a create_lead whose
\* stage lookup and count were answered and whose insert was refused
FailedAfterEarlierSteps ==
    \E c \in Slots :
        /\ Done(c)
        /\ Failed(calls[c].resp)
        /\ calls[c].ops = <<"select_stage", "count_leads", "insert_lead">>
        /\ "select_stage" \notin calls[c].errs
        /\ leads = calls[c].pre

----------------------------------------------------------------------------
(* The SSE endpoints of part_000 *)

\* app.get("/sse"): transport = new SSEServerTransport("/messages", res);
\* await server.connect(transport)
GetSse ==
    /\ Len(sessions) < MaxSessions
    /\ sessions' = Append(sessions, [open |-> TRUE, received |-> <<>>])
    /\ transport' = Len(sessions) + 1
    /\ UNCHANGED <<leads, calls, posted>>

\* the client of session s closes its stream; no handler of part_000 runs
Disconnect(s) ==
    /\ sessions[s].open
    /\ sessions' = [sessions EXCEPT ![s].open = FALSE]
    /\ UNCHANGED <<leads, calls, transport, posted>>

\* a POST that delivers to the session named by the client's sessionId
PostMessagesBySessionId(from) ==
    /\ posted.n < MaxPosts
    /\ IF from # 0
       THEN /\ sessions' = [sessions EXCEPT ![from].received = Append(@, from)]
            /\ posted' = [n |-> posted.n + 1, from |-> from, status |-> 202,
                          to |-> from]
       ELSE /\ posted' = [n |-> posted.n + 1, from |-> from, status |-> 400,
                          to |-> 0]
            /\ UNCHANGED sessions
    /\ UNCHANGED <<leads, calls, transport>>

\* what transport.handlePostMessage(req, res) of the SDK answers for a
\* well-formed message: 202 Accepted, or 500 once the stream is closed
HandlePostMessageStatuses(session) ==
    IF session.open THEN {202} ELSE {202, 500}

\* app.post("/messages"), sent by the client that opened session `from`
\* (0: a client that opened none):
\* if (transport) await transport.handlePostMessage(req, res)
\* else res.status(400).send("No valid transport connection")
PostMessages(from) ==
    /\ posted.n < MaxPosts
    /\ IF transport # 0
       THEN /\ sessions' = [sessions EXCEPT ![transport].received = Append(@, from)]
            /\ \E st \in HandlePostMessageStatuses(sessions[transport]) :
                  posted' = [n |-> posted.n + 1, from |-> from, status |-> st,
                             to |-> transport]
       ELSE /\ posted' = [n |-> posted.n + 1, from |-> from, status |-> 400,
                          to |-> 0]
            /\ UNCHANGED sessions
    /\ UNCHANGED <<leads, calls, transport>>

NextSse ==
    \/ GetSse
    \/ \E s \in 1..Len(sessions) : Disconnect(s)
    \/ \E from \in 0..Len(sessions) : PostMessages(from)

SpecSse == Init /\ [][NextSse]_vars

\* C21: a POST /messages is answered 400 exactly when no GET /sse has been
\* received; otherwise it is handed to the session opened last, whoever sent
\* it; and the session the server holds is never cleared, only replaced by a
\* newer one.
PostsGoToTheLastSession ==
    /\ [](transport = Len(sessions))
    /\ [][ posted'.n = posted.n + 1 =>
              /\ (posted'.status = 400) <=> (Len(sessions) = 0)
              /\ Len(sessions) > 0 =>
                    /\ posted'.to = Len(sessions)
                    /\ sessions' = [sessions EXCEPT ![Len(sessions)].received =
                                        Append(@, posted'.from)]
              /\ Len(sessions) = 0 => posted'.to = 0 /\ sessions' = sessions ]_vars
    /\ [][ transport # 0 => transport' >= transport ]_vars

\* after a second GET /sse and the second client's disconnect, a message of
\* the first client, whose stream is open, has been handed to the second session
StaleSessionReceives ==
    /\ Len(sessions) = 2
    /\ sessions[1].open
    /\ ~sessions[2].open
    /\ posted.from = 1
    /\ posted.to = 2
    /\ posted.status # 400
    /\ sessions[2].received = <<1>>
    /\ sessions[1].received = <<>>

====
